---- MODULE Spec2Model ----
(***************************************************************************)
(* InstaBot: credential / session lifecycle and the live-check workflow.   *)
(*                                                                         *)
(* State: the process-wide handle and credential dict of shared_state.py,  *)
(* the two files of config.py, and the handler coroutines in flight.  A    *)
(* handler runs atomically between two awaits; a function passed to        *)
(* asyncio.to_thread runs on a worker thread, so its file accesses         *)
(* interleave with the handlers of the event loop.  The worker's return    *)
(* and the resumption of the awaiting coroutine are two steps: the thread  *)
(* hands its result back through the loop's callback queue, and other      *)
(* coroutines run in between.                                              *)
(***************************************************************************)
EXTENDS Integers, Sequences, FiniteSets, TLC

\* ------------------------------------------------------------------ bounds
MaxMsgs == 3
MaxInFlight == 2
\* the longest text made of every combination of characters
MaxLen == 3

\* ------------------------------------------------------------------ values
None == "<None>"

\* The strings an operator can set; "" is what split(" ", 1)[1].strip() gives
\* for an argument of blanks.
Usernames == {"", "u1"}
Passwords == {"", "p1", "p2"}

\* shared_state.ig_credentials: a dict with optional keys; a missing key is
\* the field None (what dict.get returns for it).
Dict(u, p) == [username |-> u, password |-> p]
EmptyDict == Dict(None, None)
Dicts == {Dict(u, p) : u \in Usernames \cup {None}, p \in Passwords \cup {None}}
HasKey(d, k) == d[k] # None
Truthy(v) == v # None /\ v # ""

\* shared_state.instagrapi_client: None, or a client bound to the credentials
\* it logged in with and to a session token.  stale is a history flag: a
\* critical-failure wipe ran after the adapter returned this client.
NoClient == [some |-> FALSE, user |-> None, pass |-> None, tok |-> 0, stale |-> FALSE]
Client(u, p, tok) == [some |-> TRUE, user |-> u, pass |-> p, tok |-> tok, stale |-> FALSE]

\* instagrapi exceptions
CRITICAL_INSTAGRAM_EXCEPTIONS ==
    {"LoginRequired", "BadPassword", "ChallengeRequired",
     "SentryBlock", "ProxyAddressIsBlocked", "ClientForbiddenError"}
\* what a remote call made during a login can raise: a critical error or
\* anything else
LoginErrors == CRITICAL_INSTAGRAM_EXCEPTIONS \cup {"Exception"}
\* what a remote call made during a check can raise
CheckErrors == CRITICAL_INSTAGRAM_EXCEPTIONS \cup {"UserNotFound", "FeedbackRequired", "Exception"}

\* ------------------------------------------------------------ Secret Codec
ENCRYPTION_KEY == "key"

json_dumps(d) ==
    (IF HasKey(d, "username") THEN << <<"username", d.username>> >> ELSE << >>) \o
    (IF HasKey(d, "password") THEN << <<"password", d.password>> >> ELSE << >>)

JsonGet(s, k) ==
    IF \E n \in 1..Len(s) : s[n][1] = k
    THEN (s[CHOOSE n \in 1..Len(s) : s[n][1] = k])[2]
    ELSE None

json_loads(s) == Dict(JsonGet(s, "username"), JsonGet(s, "password"))

\* Faulty variant: only the username is serialised.
encrypt_data_username_only(data) ==
    [key |-> ENCRYPTION_KEY, text |-> json_dumps([data EXCEPT !.password = None])]

\* Faulty variant: the token is not verified against the key.
decrypt_data_unverified(blob) == json_loads(blob.text)

encrypt_data(data) == [key |-> ENCRYPTION_KEY, text |-> json_dumps(data)]

\* InvalidToken (a blob of another key, a corrupted blob) gives {}
decrypt_data(blob) ==
    IF blob.key = ENCRYPTION_KEY THEN json_loads(blob.text) ELSE EmptyDict

CorruptBlob == [key |-> "other", text |-> << >>]

\* ------------------------------------------------------------------- files
\* A file is absent, or exists with a content.
NoBlob == [key |-> None, text |-> << >>]
AbsentCredFile == [exists |-> FALSE, blob |-> NoBlob]
CredFile(blob) == [exists |-> TRUE, blob |-> blob]
\* The session file holds the token as client.dump_settings writes it: JSON,
\* under no key.
AbsentSessFile == [exists |-> FALSE, tok |-> 0, key |-> None]
SessFile(tok) == [exists |-> TRUE, tok |-> tok, key |-> None]
\* the token of a session file left by an earlier run of the process
OldToken == -1

\* instagram_handler.save_credentials: the file holds the encryption of the
\* whole in-memory dict
save_credentials(creds) == CredFile(encrypt_data(creds))

VARIABLES
    instagrapi_client,  \* shared_state.instagrapi_client
    ig_credentials,     \* shared_state.ig_credentials
    CREDENTIALS_FILE,   \* the file at config.CREDENTIALS_FILE
    SESSION_FILE,       \* the file at config.SESSION_FILE
    tasks,              \* the coroutines in flight: id -> locals and position
    nMsgs,              \* chat messages dispatched so far
    phase,              \* main.py: "load", "startup", "running"
    last,               \* history: the step taken last
    fcall               \* one call of a function taken by itself: its
                        \* arguments and what it returned (SpecNormalizer,
                        \* SpecExecutor); no call in a run of the bot

vars == <<instagrapi_client, ig_credentials, CREDENTIALS_FILE, SESSION_FILE,
          tasks, nMsgs, phase, last, fcall>>

shared == <<instagrapi_client, ig_credentials, CREDENTIALS_FILE, SESSION_FILE>>

Snapshot == [creds |-> ig_credentials, cfile |-> CREDENTIALS_FILE, sfile |-> SESSION_FILE]

\* What a step sends to the chat: the texts, each named by its opening words,
\* and how the username and the password are embedded in them: "-" not at
\* all, "plain" as they are, "masked" through mask_password.
Reply(replies, username, password) ==
    [replies |-> replies, username |-> username, password |-> password]
\* how a credential appears in a reply: not at all, as it is, or as
\* mask_password renders it
NotEmbedded == [form |-> "-", of |-> None]
Plain(v) == [form |-> "plain", of |-> v]
Masked(v) == [form |-> "mask_password", of |-> v]
Text(replies) == Reply(replies, NotEmbedded, NotEmbedded)
NoReply == Text(<< >>)

\* The step taken last: the handler or thread step, the message (0: startup)
\* it belongs to, the adapter's or executor's outcome it handled (for a
\* /setlogin or /setpassword: the argument of the command), whether it
\* ended in an unhandled exception, which files existed before it, whether
\* it is a /logout that directly follows a /logout, what it sent to the chat,
\* and the calls a worker thread made during it.
StepR(op, id, out, raised) ==
    [op |-> op, id |-> id, out |-> out, raised |-> raised,
     had_cfile |-> CREDENTIALS_FILE.exists, had_sfile |-> SESSION_FILE.exists,
     again |-> (op = "logout" /\ last.op = "logout"),
     said |-> NoReply, trace |-> << >>]
Step(op, id) == StepR(op, id, "", FALSE)
\* the step, with what it sent to the chat
Says(step, reply) == [step EXCEPT !.said = reply]
\* the client calls a worker-thread step made, in order
Traced(step, trace) == [step EXCEPT !.trace = trace]

\* The locals of a coroutine in flight.  kind: "login" or "check".
Task(kind, pc, msg, manual, u, p) ==
    [kind |-> kind, pc |-> pc, msg |-> msg, manual |-> manual,
     username |-> u, password |-> p,
     out |-> "", new_client |-> NoClient, cl |-> NoClient,
     calls |-> 0, pre |-> Snapshot]

InFlight == DOMAIN tasks
Spawn(i, t) == [j \in InFlight \cup {i} |-> IF j = i THEN t ELSE tasks[j]]
Finish(i) == [j \in InFlight \ {i} |-> tasks[j]]
Update(i, t) == [tasks EXCEPT ![i] = t]

NoCall == [fn |-> "-"]

\* The process starts with whatever an earlier run left on disk: no
\* credentials file, one that does not decrypt under the key, or one written
\* by save_credentials; no session file, or an earlier session.
Init ==
    /\ instagrapi_client = NoClient
    /\ ig_credentials = EmptyDict
    /\ CREDENTIALS_FILE \in {AbsentCredFile, CredFile(CorruptBlob)}
                            \cup {save_credentials(d) : d \in Dicts \ {EmptyDict}}
    /\ SESSION_FILE \in {AbsentSessFile, SessFile(OldToken)}
    /\ tasks = << >>
    /\ nMsgs = 0
    /\ phase = "load"
    /\ last = Step("init", 0)
    /\ fcall = NoCall

\* ----------------------------------------------------- Credential Store
\* Faulty variant: a file that holds only one of the two fields is ignored.
load_credentials_complete_only(creds, cfile) ==
    IF cfile.exists /\ Truthy(decrypt_data(cfile.blob).username)
                   /\ Truthy(decrypt_data(cfile.blob).password)
    THEN [creds |-> decrypt_data(cfile.blob), decoded |-> "decoded"]
    ELSE [creds |-> creds, decoded |-> "no_file"]

\* instagram_handler.load_credentials: the new in-memory credentials, and
\* whether the file was read and decoded
load_credentials(creds, cfile) ==
    IF cfile.exists
    THEN [creds |-> decrypt_data(cfile.blob), decoded |-> "decoded"]
    ELSE [creds |-> creds, decoded |-> "no_file"]

\* run once by main.py
LoadCredentials ==
    /\ phase = "load"
    /\ LET r == load_credentials(ig_credentials, CREDENTIALS_FILE)
       IN  /\ ig_credentials' = r.creds
           /\ last' = StepR("load_credentials", 0, r.decoded, FALSE)
    /\ phase' = "startup"
    /\ UNCHANGED <<instagrapi_client, CREDENTIALS_FILE, SESSION_FILE, tasks, nMsgs>>
    /\ UNCHANGED fcall

\* Path.unlink: removes the file; raises FileNotFoundError when there is none
unlink_cred(f) == [file |-> AbsentCredFile, raised |-> ~f.exists]
unlink_sess(f) == [file |-> AbsentSessFile, raised |-> ~f.exists]
\* "if F.exists(): F.unlink()"
remove_cred_if_exists(f) == IF f.exists THEN unlink_cred(f) ELSE [file |-> f, raised |-> FALSE]
remove_sess_if_exists(f) == IF f.exists THEN unlink_sess(f) ELSE [file |-> f, raised |-> FALSE]

\* A critical-failure wipe marks the clients that the adapter has returned
\* and that no coroutine has stored yet (history only).
MarkStale(ts) ==
    [j \in DOMAIN ts |->
        IF ts[j].kind = "login" /\ ts[j].pc = "login_return" /\ ts[j].out = "ok"
        THEN [ts[j] EXCEPT !.new_client.stale = TRUE]
        ELSE ts[j]]

\* ------------------------------------------------------ Login Orchestrator
\* attempt_login, lines 122-134: reset the handle, read the credentials,
\* return when one is missing or empty, else go on to the adapter call.
\* Faulty variant: goes on when either credential is present.
attempt_login_begin_either(client, creds, msg, manual) ==
    LET username == creds.username
        password == creds.password
    IN  [client |-> NoClient,
         proceed |-> Truthy(username) \/ Truthy(password),
         task |-> Task("login", "login_call", msg, manual, username, password)]

attempt_login_begin(client, creds, msg, manual) ==
    LET username == creds.username
        password == creds.password
    IN  [client |-> NoClient,
         proceed |-> Truthy(username) /\ Truthy(password),
         task |-> Task("login", "login_call", msg, manual, username, password)]

\* main.py -> startup_login -> attempt_login(): no message, no manual flag
StartupLogin ==
    /\ phase = "startup"
    /\ LET r == attempt_login_begin(instagrapi_client, ig_credentials, FALSE, FALSE)
       IN  /\ instagrapi_client' = r.client
           /\ tasks' = IF r.proceed THEN Spawn(0, r.task) ELSE tasks
           /\ phase' = IF r.proceed THEN "startup_login" ELSE "running"
    /\ last' = Step("startup_login", 0)
    /\ UNCHANGED <<ig_credentials, CREDENTIALS_FILE, SESSION_FILE, nMsgs>>
    /\ UNCHANGED fcall

\* A chat message can be dispatched: the bot runs, and fewer than k handlers
\* are in flight.
CanDispatch(k) ==
    /\ phase = "running"
    /\ nMsgs < MaxMsgs
    /\ Cardinality(InFlight) < k

\* /login
login_command_handler(client, creds) ==
    IF client.some
    THEN [client |-> client, proceed |-> FALSE, task |-> Task("login", "", TRUE, TRUE, None, None)]
    ELSE IF HasKey(creds, "username") /\ HasKey(creds, "password")
         THEN attempt_login_begin(client, creds, TRUE, TRUE)
         ELSE [client |-> client, proceed |-> FALSE, task |-> Task("login", "", TRUE, TRUE, None, None)]

\* what /login answers before the adapter is called; attempt_login returns
\* in silence when a credential is empty (line 131)
login_command_replies(client, creds) ==
    IF client.some THEN Text(<<"already_logged_in">>)
    ELSE IF HasKey(creds, "username") /\ HasKey(creds, "password")
         THEN IF Truthy(creds.username) /\ Truthy(creds.password)
              THEN Text(<<"credentials_found">>)
              ELSE NoReply
         ELSE Text(<<"cannot_log_in">>)

LoginCmd(k) ==
    /\ CanDispatch(k)
    /\ LET i == nMsgs + 1
           r == login_command_handler(instagrapi_client, ig_credentials)
       IN  /\ instagrapi_client' = r.client
           /\ tasks' = IF r.proceed THEN Spawn(i, r.task) ELSE tasks
           /\ nMsgs' = i
           /\ last' = Says(Step("login", i),
                           login_command_replies(instagrapi_client, ig_credentials))
    /\ UNCHANGED <<ig_credentials, CREDENTIALS_FILE, SESSION_FILE, phase>>
    /\ UNCHANGED fcall

\* --------------------------------------------------- Remote Session Adapter
\* perform_instagram_login on its worker thread, line 87: SESSION_FILE.exists()
LoginExists(i) ==
    /\ i \in InFlight
    /\ tasks[i].pc = "login_call"
    /\ tasks' = Update(i, [tasks[i] EXCEPT
                    !.pc = IF SESSION_FILE.exists THEN "login_session" ELSE "login_fresh",
                    !.calls = @ + 1])
    /\ last' = Step("perform_login_exists", i)
    /\ UNCHANGED <<shared, nMsgs, phase>>
    /\ UNCHANGED fcall

\* how the remote service answers the two calls of a login: client.login and
\* client.get_timeline_feed each succeed or raise
LoginRemotes == [login : {"ok"} \cup LoginErrors, feed : {"ok"} \cup LoginErrors]

LoginResult(out, new_client, sfile, trace) ==
    [out |-> out, new_client |-> new_client, sfile |-> sfile, trace |-> trace]

\* Faulty variant: the loaded session is trusted without the verifying call.
perform_login_session_unverified(t, sfile, remote) ==
    IF ~sfile.exists
    THEN LoginResult("Exception", NoClient, sfile, <<"load_settings">>)
    ELSE IF remote.login # "ok"
         THEN LoginResult(remote.login, NoClient, sfile, <<"load_settings", "login">>)
         ELSE LoginResult("ok", Client(t.username, t.password, sfile.tok), sfile,
                          <<"load_settings", "login">>)

\* lines 88-92: load_settings, login, get_timeline_feed.  load_settings raises
\* when the file was removed after the exists() test.
perform_login_session(t, sfile, remote) ==
    IF ~sfile.exists
    THEN LoginResult("Exception", NoClient, sfile, <<"load_settings">>)
    ELSE IF remote.login # "ok"
         THEN LoginResult(remote.login, NoClient, sfile, <<"load_settings", "login">>)
         ELSE IF remote.feed # "ok"
              THEN LoginResult(remote.feed, NoClient, sfile,
                               <<"load_settings", "login", "get_timeline_feed">>)
              ELSE LoginResult("ok", Client(t.username, t.password, sfile.tok), sfile,
                               <<"load_settings", "login", "get_timeline_feed">>)

\* lines 94-97: login, then dump_settings; i names the new token
perform_login_fresh(t, sfile, remote, i) ==
    IF remote.login = "ok"
    THEN LoginResult("ok", Client(t.username, t.password, i), SessFile(i),
                     <<"login", "dump_settings">>)
    ELSE LoginResult(remote.login, NoClient, sfile, <<"login">>)

LoginWithSession(i) ==
    /\ i \in InFlight
    /\ tasks[i].pc = "login_session"
    /\ \E r \in {perform_login_session(tasks[i], SESSION_FILE, remote) :
                    remote \in LoginRemotes} :
        /\ SESSION_FILE' = r.sfile
        /\ tasks' = Update(i, [tasks[i] EXCEPT !.pc = "login_return",
                                   !.out = r.out, !.new_client = r.new_client])
        /\ last' = Traced(StepR("perform_login_session", i, r.out, FALSE), r.trace)
    /\ UNCHANGED <<instagrapi_client, ig_credentials, CREDENTIALS_FILE, nMsgs, phase>>
    /\ UNCHANGED fcall

LoginFresh(i) ==
    /\ i \in InFlight
    /\ tasks[i].pc = "login_fresh"
    /\ \E r \in {perform_login_fresh(tasks[i], SESSION_FILE, remote, i) :
                    remote \in LoginRemotes} :
        /\ SESSION_FILE' = r.sfile
        /\ tasks' = Update(i, [tasks[i] EXCEPT !.pc = "login_return",
                                   !.out = r.out, !.new_client = r.new_client])
        /\ last' = Traced(StepR("perform_login_fresh", i, r.out, FALSE), r.trace)
    /\ UNCHANGED <<instagrapi_client, ig_credentials, CREDENTIALS_FILE, nMsgs, phase>>
    /\ UNCHANGED fcall

\* attempt_login, lines 138-186: the coroutine resumes with the adapter's
\* result or exception.  wiped tells that the hard reset ran.
\* Faulty variant: the hard reset leaves the session file.
attempt_login_end_keeps_session(t, client, creds, cfile, sfile) ==
    IF t.out = "ok"
    THEN [client |-> t.new_client, creds |-> creds, cfile |-> cfile, sfile |-> sfile,
          wiped |-> FALSE, raised |-> FALSE]
    ELSE IF t.out \in {"BadPassword", "LoginRequired"} /\ ~(t.manual /\ t.msg)
         THEN LET c == remove_cred_if_exists(cfile)
              IN  [client |-> client, creds |-> EmptyDict, cfile |-> c.file, sfile |-> sfile,
                   wiped |-> TRUE, raised |-> c.raised]
         ELSE [client |-> client, creds |-> creds, cfile |-> cfile, sfile |-> sfile,
               wiped |-> FALSE, raised |-> FALSE]

\* Faulty variant: the hard reset ignores the manual-first-attempt flag.
attempt_login_end_always_resets(t, client, creds, cfile, sfile) ==
    IF t.out = "ok"
    THEN [client |-> t.new_client, creds |-> creds, cfile |-> cfile, sfile |-> sfile,
          wiped |-> FALSE, raised |-> FALSE]
    ELSE IF t.out \in {"BadPassword", "LoginRequired"}
         THEN LET s == remove_sess_if_exists(sfile)
                  c == remove_cred_if_exists(cfile)
              IN  [client |-> client, creds |-> EmptyDict, cfile |-> c.file, sfile |-> s.file,
                   wiped |-> TRUE, raised |-> s.raised \/ c.raised]
         ELSE [client |-> client, creds |-> creds, cfile |-> cfile, sfile |-> sfile,
               wiped |-> FALSE, raised |-> FALSE]

\* Faulty variant: the hard reset runs on every critical exception.
attempt_login_end_resets_on_critical(t, client, creds, cfile, sfile) ==
    IF t.out = "ok"
    THEN [client |-> t.new_client, creds |-> creds, cfile |-> cfile, sfile |-> sfile,
          wiped |-> FALSE, raised |-> FALSE]
    ELSE IF t.out \in CRITICAL_INSTAGRAM_EXCEPTIONS /\ ~(t.manual /\ t.msg)
         THEN LET s == remove_sess_if_exists(sfile)
                  c == remove_cred_if_exists(cfile)
              IN  [client |-> client, creds |-> EmptyDict, cfile |-> c.file, sfile |-> s.file,
                   wiped |-> TRUE, raised |-> s.raised \/ c.raised]
         ELSE [client |-> client, creds |-> creds, cfile |-> cfile, sfile |-> sfile,
               wiped |-> FALSE, raised |-> FALSE]

attempt_login_end(t, client, creds, cfile, sfile) ==
    IF t.out = "ok"
    THEN [client |-> t.new_client, creds |-> creds, cfile |-> cfile, sfile |-> sfile,
          wiped |-> FALSE, raised |-> FALSE]
    ELSE IF t.out \in {"BadPassword", "LoginRequired"} /\ ~(t.manual /\ t.msg)
         THEN LET s == remove_sess_if_exists(sfile)
                  c == remove_cred_if_exists(cfile)
              IN  [client |-> client, creds |-> EmptyDict, cfile |-> c.file, sfile |-> s.file,
                   wiped |-> TRUE, raised |-> s.raised \/ c.raised]
         ELSE [client |-> client, creds |-> creds, cfile |-> cfile, sfile |-> sfile,
               wiped |-> FALSE, raised |-> FALSE]

\* lines 141-186: what the coroutine tells the chat about the login; nothing
\* without a message
attempt_login_replies(t, raised) ==
    IF ~t.msg \/ raised THEN NoReply
    ELSE IF t.out = "ok" THEN Text(<<"logged_in">>)
    ELSE IF t.out \in {"BadPassword", "LoginRequired"}
         THEN IF t.manual
              THEN Reply(<<"login_failed_check_credentials">>,
                         Plain(t.username), Masked(t.password))
              ELSE Text(<<"login_failed_cleared">>)
    ELSE IF t.out = "ChallengeRequired" THEN Text(<<"login_failed_checkpoint">>)
    ELSE IF t.out \in {"SentryBlock", "ProxyAddressIsBlocked"}
         THEN Text(<<"login_failed_ip_blocked">>)
    ELSE IF t.out = "ClientForbiddenError" THEN Text(<<"login_failed_suspended">>)
    ELSE Text(<<"critical_error">>)

LoginResume(i) ==
    /\ i \in InFlight
    /\ tasks[i].pc = "login_return"
    /\ LET r == attempt_login_end(tasks[i], instagrapi_client, ig_credentials,
                                  CREDENTIALS_FILE, SESSION_FILE)
       IN  /\ instagrapi_client' = r.client
           /\ ig_credentials' = r.creds
           /\ CREDENTIALS_FILE' = r.cfile
           /\ SESSION_FILE' = r.sfile
           /\ tasks' = IF r.wiped THEN MarkStale(Finish(i)) ELSE Finish(i)
           /\ last' = Says(StepR("attempt_login_end", i, tasks[i].out, r.raised),
                           attempt_login_replies(tasks[i], r.raised))
    /\ phase' = IF i = 0 THEN "running" ELSE phase
    /\ UNCHANGED nMsgs
    /\ UNCHANGED fcall

\* --------------------------------------------------------- chat commands
\* /setlogin <username>; arg = None is a command without an argument (IndexError)
\* Faulty variant: the argument is stored as the password too.
set_login_handler_sets_both(arg, client, creds, cfile, sfile) ==
    IF client.some \/ arg = None
    THEN [client |-> client, creds |-> creds, cfile |-> cfile, sfile |-> sfile]
    ELSE LET new == Dict(arg, arg)
         IN  [client |-> client, creds |-> new, cfile |-> save_credentials(new), sfile |-> sfile]

set_login_handler(arg, client, creds, cfile, sfile) ==
    IF client.some \/ arg = None
    THEN [client |-> client, creds |-> creds, cfile |-> cfile, sfile |-> sfile]
    ELSE LET new == [creds EXCEPT !.username = arg]
         IN  [client |-> client, creds |-> new, cfile |-> save_credentials(new), sfile |-> sfile]

\* Faulty variant: logs in by itself once both fields are present.
set_password_handler_logs_in(arg, client, creds, cfile, sfile) ==
    IF client.some \/ arg = None
    THEN [client |-> client, creds |-> creds, cfile |-> cfile, sfile |-> sfile]
    ELSE LET new == [creds EXCEPT !.password = arg]
         IN  [client |-> IF Truthy(new.username) /\ Truthy(new.password)
                         THEN Client(new.username, new.password, OldToken)
                         ELSE client,
              creds |-> new, cfile |-> save_credentials(new), sfile |-> sfile]

\* /setpassword <password>
set_password_handler(arg, client, creds, cfile, sfile) ==
    IF client.some \/ arg = None
    THEN [client |-> client, creds |-> creds, cfile |-> cfile, sfile |-> sfile]
    ELSE LET new == [creds EXCEPT !.password = arg]
         IN  [client |-> client, creds |-> new, cfile |-> save_credentials(new), sfile |-> sfile]

\* lines 19-39: what /setlogin answers
set_login_replies(arg, client, creds) ==
    IF client.some THEN Text(<<"action_denied">>)
    ELSE IF arg = None THEN Text(<<"incorrect_usage">>)
    ELSE Reply(<<"username_set",
                 IF Truthy(creds.password) THEN "both_set" ELSE "now_set_password">>,
               Plain(arg), NotEmbedded)

\* lines 44-70: what /setpassword answers
set_password_replies(arg, client, creds) ==
    IF client.some THEN Text(<<"action_denied">>)
    ELSE IF arg = None THEN Text(<<"incorrect_usage">>)
    ELSE Text(<<"password_set",
                IF Truthy(creds.username) THEN "both_set" ELSE "now_set_username">>)

SetLogin(k) ==
    /\ CanDispatch(k)
    /\ \E arg \in Usernames \cup {None} :
        LET r == set_login_handler(arg, instagrapi_client, ig_credentials,
                                   CREDENTIALS_FILE, SESSION_FILE)
        IN  /\ instagrapi_client' = r.client
            /\ ig_credentials' = r.creds
            /\ CREDENTIALS_FILE' = r.cfile
            /\ SESSION_FILE' = r.sfile
            /\ last' = Says(StepR("setlogin", nMsgs + 1, arg, FALSE),
                            set_login_replies(arg, instagrapi_client, ig_credentials))
    /\ nMsgs' = nMsgs + 1
    /\ UNCHANGED <<tasks, phase>>
    /\ UNCHANGED fcall

SetPassword(k) ==
    /\ CanDispatch(k)
    /\ \E arg \in Passwords \cup {None} :
        LET r == set_password_handler(arg, instagrapi_client, ig_credentials,
                                      CREDENTIALS_FILE, SESSION_FILE)
        IN  /\ instagrapi_client' = r.client
            /\ ig_credentials' = r.creds
            /\ CREDENTIALS_FILE' = r.cfile
            /\ SESSION_FILE' = r.sfile
            /\ last' = Says(StepR("setpassword", nMsgs + 1, arg, FALSE),
                            set_password_replies(arg, instagrapi_client, ig_credentials))
    /\ nMsgs' = nMsgs + 1
    /\ UNCHANGED <<tasks, phase>>
    /\ UNCHANGED fcall

\* Faulty variant: no early return, and unlink without the exists() test.
logout_command_handler_unguarded(client, creds, cfile, sfile) ==
    LET s == unlink_sess(sfile)
        c == unlink_cred(cfile)
    IN  [client |-> NoClient, creds |-> EmptyDict, cfile |-> c.file, sfile |-> s.file,
         raised |-> s.raised \/ c.raised]

\* /logout
logout_command_handler(client, creds, cfile, sfile) ==
    IF ~client.some /\ creds = EmptyDict
    THEN [client |-> client, creds |-> creds, cfile |-> cfile, sfile |-> sfile,
          raised |-> FALSE]
    ELSE LET s == remove_sess_if_exists(sfile)
             c == remove_cred_if_exists(cfile)
         IN  [client |-> NoClient, creds |-> EmptyDict, cfile |-> c.file, sfile |-> s.file,
              raised |-> s.raised \/ c.raised]

\* what /logout answers
logout_replies(client, creds, raised) ==
    IF raised THEN NoReply
    ELSE IF ~client.some /\ creds = EmptyDict THEN Text(<<"nothing_saved">>)
    ELSE Text(<<"logged_out">>)

LogoutCmd(k) ==
    /\ CanDispatch(k)
    /\ LET r == logout_command_handler(instagrapi_client, ig_credentials,
                                       CREDENTIALS_FILE, SESSION_FILE)
       IN  /\ instagrapi_client' = r.client
           /\ ig_credentials' = r.creds
           /\ CREDENTIALS_FILE' = r.cfile
           /\ SESSION_FILE' = r.sfile
           /\ last' = Says(StepR("logout", nMsgs + 1, "", r.raised),
                           logout_replies(instagrapi_client, ig_credentials, r.raised))
    /\ nMsgs' = nMsgs + 1
    /\ UNCHANGED <<tasks, phase>>
    /\ UNCHANGED fcall

\* /status
status_command_handler(client) ==
    IF client.some THEN Text(<<"status_logged_in">>) ELSE Text(<<"status_not_logged_in">>)

StatusCmd(k) ==
    /\ CanDispatch(k)
    /\ nMsgs' = nMsgs + 1
    /\ last' = Says(Step("status", nMsgs + 1), status_command_handler(instagrapi_client))
    /\ UNCHANGED <<shared, tasks, phase>>
    /\ UNCHANGED fcall

\* ----------------------------------------------------- Live-Check Executor
\* What the remote service answers to the three lookups of one check: an
\* exception (err), or a value.  A lookup whose answer cannot matter because
\* an earlier one raised, or because the account is public, is NotCalled.
Pks == {"pk1", "pk2"}

UserInfo(pk, is_private) == [err |-> "", pk |-> pk, is_private |-> is_private]
InfoRaises(e) == [err |-> e, pk |-> None, is_private |-> FALSE]
Friendship(following) == [err |-> "", following |-> following]
FriendRaises(e) == [err |-> e, following |-> FALSE]
FriendNotCalled == FriendRaises("-")

\* response_data["broadcast"]: the key is absent, null, or a broadcast object
\* (one of them without a playback URL)
BroadcastObject(id, url) == [kind |-> "object", id |-> id, dash_playback_url |-> url]
BroadcastValues ==
    {[kind |-> "absent", id |-> None, dash_playback_url |-> None],
     [kind |-> "null", id |-> None, dash_playback_url |-> None],
     BroadcastObject("b1", "url1"), BroadcastObject("b2", "url2"),
     BroadcastObject("b1", None)}
Story(b) == [err |-> "", broadcast |-> b]
StoryRaises(e) == [err |-> e, broadcast |-> [kind |-> "absent", id |-> None,
                                             dash_playback_url |-> None]]
StoryNotCalled == StoryRaises("-")
Stories == {Story(b) : b \in BroadcastValues} \cup {StoryRaises(e) : e \in CheckErrors}

Responses ==
    {[info |-> InfoRaises(e), friend |-> FriendNotCalled, story |-> StoryNotCalled] :
        e \in CheckErrors}
    \cup {[info |-> UserInfo(pk, FALSE), friend |-> FriendNotCalled, story |-> s] :
            pk \in Pks, s \in Stories}
    \cup {[info |-> UserInfo(pk, TRUE), friend |-> FriendRaises(e), story |-> StoryNotCalled] :
            pk \in Pks, e \in CheckErrors}
    \cup {[info |-> UserInfo(pk, TRUE), friend |-> Friendship(f), story |-> s] :
            pk \in Pks, f \in BOOLEAN, s \in Stories}

\* A Check Result: the dict check_livestream returns (status "-": it raised
\* the exception named by raised instead), and, as history, the remote calls
\* it made in their order.
CheckResult(status, live, id, url, message, calls) ==
    [raised |-> "", status |-> status, live |-> live, broadcast_id |-> id,
     mpd_url |-> url, message |-> message, calls |-> calls]
CheckRaised(e, calls) ==
    [raised |-> e, status |-> "-", live |-> FALSE, broadcast_id |-> None,
     mpd_url |-> None, message |-> "", calls |-> calls]
Call(fn, arg) == [fn |-> fn, arg |-> arg]

\* Faulty variant: the critical set is converted to an error result too.
check_classify_swallows(e, calls) ==
    IF e = "UserNotFound" THEN CheckResult("error", FALSE, None, None, "not_found", calls)
    ELSE IF e = "FeedbackRequired"
         THEN CheckResult("error", FALSE, None, None, "blocked", calls)
    ELSE CheckResult("error", FALSE, None, None, "unexpected", calls)

\* the except clauses of check_livestream, lines 307-318
check_classify(e, calls) ==
    IF e = "UserNotFound" THEN CheckResult("error", FALSE, None, None, "not_found", calls)
    ELSE IF e = "FeedbackRequired"
         THEN CheckResult("error", FALSE, None, None, "blocked", calls)
    ELSE IF e \in CRITICAL_INSTAGRAM_EXCEPTIONS THEN CheckRaised(e, calls)
    ELSE CheckResult("error", FALSE, None, None, "unexpected", calls)

\* lines 296-305: the broadcast lookup keyed by user_id, and its outcome
check_broadcast(user_id, story, calls) ==
    LET cs == Append(calls, Call("private_request", user_id))
    IN  IF story.err # "" THEN check_classify(story.err, cs)
        ELSE IF story.broadcast.kind = "object"
             THEN CheckResult("success", TRUE, story.broadcast.id,
                              story.broadcast.dash_playback_url, "", cs)
             ELSE CheckResult("success", FALSE, None, None, "", cs)

\* Faulty variant: the friendship answer is ignored.
check_livestream_ignores_friendship(cl, username, remote) ==
    LET c1 == << Call("user_info_by_username", username) >>
        c2 == Append(c1, Call("user_friendship_v1", remote.info.pk))
    IN  IF ~cl.some THEN check_classify("Exception", << >>)
        ELSE IF remote.info.err # "" THEN check_classify(remote.info.err, c1)
        ELSE IF remote.info.is_private
             THEN IF remote.friend.err # "" THEN check_classify(remote.friend.err, c2)
                  ELSE check_broadcast(remote.info.pk, remote.story, c2)
             ELSE check_broadcast(remote.info.pk, remote.story, c1)

\* Faulty variant: the broadcast lookup is keyed by the username.
check_livestream_by_username(cl, username, remote) ==
    LET c1 == << Call("user_info_by_username", username) >>
        c2 == Append(c1, Call("user_friendship_v1", remote.info.pk))
    IN  IF ~cl.some THEN check_classify("Exception", << >>)
        ELSE IF remote.info.err # "" THEN check_classify(remote.info.err, c1)
        ELSE IF remote.info.is_private
             THEN IF remote.friend.err # "" THEN check_classify(remote.friend.err, c2)
                  ELSE IF ~remote.friend.following
                       THEN CheckResult("private", FALSE, None, None, "private", c2)
                       ELSE check_broadcast(username, remote.story, c2)
             ELSE check_broadcast(username, remote.story, c1)

\* check_livestream(cl, username) against the answers remote.  cl = None fails
\* on the first attribute access, which the last except clause catches.
check_livestream(cl, username, remote) ==
    LET c1 == << Call("user_info_by_username", username) >>
        c2 == Append(c1, Call("user_friendship_v1", remote.info.pk))
    IN  IF ~cl.some THEN check_classify("Exception", << >>)
        ELSE IF remote.info.err # "" THEN check_classify(remote.info.err, c1)
        ELSE IF remote.info.is_private
             THEN IF remote.friend.err # "" THEN check_classify(remote.friend.err, c2)
                  ELSE IF ~remote.friend.following
                       THEN CheckResult("private", FALSE, None, None, "private", c2)
                       ELSE check_broadcast(remote.info.pk, remote.story, c2)
             ELSE check_broadcast(remote.info.pk, remote.story, c1)

\* what message_handler keeps of the outcome: the exception raised, or which
\* of its reply texts the result selects (lines 108-122)
ResultTag(r) ==
    IF r.raised # "" THEN r.raised
    ELSE IF r.status = "success" THEN (IF r.live THEN "live" ELSE "not_live")
    ELSE IF r.status = "private" THEN "private"
    ELSE "error_" \o r.message

\* Faulty variant: the check goes ahead whatever the handle is.
message_handler_begin_always(client) ==
    [ready |-> TRUE, said |-> Text(<<"checking">>)]

\* message_handler, lines 95-103: the handle is tested, and the handler
\* answers and returns when it is None
message_handler_begin(client) ==
    IF client.some
    THEN [ready |-> TRUE, said |-> Text(<<"checking">>)]
    ELSE [ready |-> FALSE, said |-> Text(<<"not_ready">>)]

\* a text message: message_handler up to its first await
TextMsg(k) ==
    /\ CanDispatch(k)
    /\ LET i == nMsgs + 1
           b == message_handler_begin(instagrapi_client)
       IN  /\ tasks' = IF b.ready
                       THEN Spawn(i, Task("check", "check_reply", TRUE, FALSE, None, None))
                       ELSE tasks
           /\ nMsgs' = i
           /\ last' = Says(Step("text", i), b.said)
    /\ UNCHANGED <<shared, phase>>
    /\ UNCHANGED fcall

\* line 106: the coroutine resumes, reads the handle and runs check_livestream
\* on a worker thread, against any answer of the remote service; the handler
\* keeps of the result what selects its reply
CheckCall(i) ==
    /\ i \in InFlight
    /\ tasks[i].pc = "check_reply"
    /\ \E out \in {ResultTag(check_livestream(instagrapi_client, tasks[i].username, resp)) :
                    resp \in Responses} :
        tasks' = Update(i, [tasks[i] EXCEPT !.pc = "check_return",
                                !.cl = instagrapi_client,
                                !.out = out])
    /\ last' = Step("check_livestream", i)
    /\ UNCHANGED <<shared, nMsgs, phase>>
    /\ UNCHANGED fcall

\* Faulty variant: the critical-error handler forgets the credentials.
message_handler_end_keeps_credentials(t, client, creds, cfile, sfile) ==
    IF t.out \in CRITICAL_INSTAGRAM_EXCEPTIONS
    THEN LET s == remove_sess_if_exists(sfile)
         IN  [client |-> NoClient, creds |-> creds, cfile |-> cfile, sfile |-> s.file,
              wiped |-> TRUE, raised |-> s.raised]
    ELSE [client |-> client, creds |-> creds, cfile |-> cfile, sfile |-> sfile,
          wiped |-> FALSE, raised |-> FALSE]

\* Faulty variant: the credentials file is overwritten with the encryption of
\* the empty dict instead of being removed.
message_handler_end_truncates(t, client, creds, cfile, sfile) ==
    IF t.out \in CRITICAL_INSTAGRAM_EXCEPTIONS
    THEN LET s == remove_sess_if_exists(sfile)
         IN  [client |-> NoClient, creds |-> EmptyDict,
              cfile |-> IF cfile.exists THEN save_credentials(EmptyDict) ELSE cfile,
              sfile |-> s.file, wiped |-> TRUE, raised |-> s.raised]
    ELSE [client |-> client, creds |-> creds, cfile |-> cfile, sfile |-> sfile,
          wiped |-> FALSE, raised |-> FALSE]

\* Faulty variant: an error result resets the session like a critical error.
message_handler_end_wipes_on_error(t, client, creds, cfile, sfile) ==
    IF t.out \in CRITICAL_INSTAGRAM_EXCEPTIONS
          \cup {"error_not_found", "error_blocked", "error_unexpected"}
    THEN LET s == remove_sess_if_exists(sfile)
             c == remove_cred_if_exists(cfile)
         IN  [client |-> NoClient, creds |-> EmptyDict, cfile |-> c.file, sfile |-> s.file,
              wiped |-> TRUE, raised |-> s.raised \/ c.raised]
    ELSE [client |-> client, creds |-> creds, cfile |-> cfile, sfile |-> sfile,
          wiped |-> FALSE, raised |-> FALSE]

\* lines 108-134: the coroutine resumes with the result or the exception
message_handler_end(t, client, creds, cfile, sfile) ==
    IF t.out \in CRITICAL_INSTAGRAM_EXCEPTIONS
    THEN LET s == remove_sess_if_exists(sfile)
             c == remove_cred_if_exists(cfile)
         IN  [client |-> NoClient, creds |-> EmptyDict, cfile |-> c.file, sfile |-> s.file,
              wiped |-> TRUE, raised |-> s.raised \/ c.raised]
    ELSE [client |-> client, creds |-> creds, cfile |-> cfile, sfile |-> sfile,
          wiped |-> FALSE, raised |-> FALSE]

\* lines 108-134: the processing message is edited to the result, or to the
\* critical-error text; any other exception leaves the handler
message_handler_replies(t, raised) ==
    IF raised THEN NoReply
    ELSE IF t.out \in CRITICAL_INSTAGRAM_EXCEPTIONS THEN Text(<<"critical_reset">>)
    ELSE IF t.out \in CheckErrors THEN NoReply
    ELSE Text(<<t.out>>)

CheckResume(i) ==
    /\ i \in InFlight
    /\ tasks[i].pc = "check_return"
    /\ LET r == message_handler_end(tasks[i], instagrapi_client, ig_credentials,
                                    CREDENTIALS_FILE, SESSION_FILE)
       IN  /\ instagrapi_client' = r.client
           /\ ig_credentials' = r.creds
           /\ CREDENTIALS_FILE' = r.cfile
           /\ SESSION_FILE' = r.sfile
           /\ tasks' = IF r.wiped THEN MarkStale(Finish(i)) ELSE Finish(i)
           /\ last' = Says(StepR("message_handler_end", i, tasks[i].out, r.raised),
                           message_handler_replies(tasks[i], r.raised))
    /\ UNCHANGED <<nMsgs, phase>>
    /\ UNCHANGED fcall

\* ------------------------------------------------------ Username Normalizer
\* A string is the sequence of its characters.
Lower ==
    {"a", "b", "c", "d", "e", "f", "g", "h", "i", "j", "k", "l", "m",
     "n", "o", "p", "q", "r", "s", "t", "u", "v", "w", "x", "y", "z"}
Upper ==
    {"A", "B", "C", "D", "E", "F", "G", "H", "I", "J", "K", "L", "M",
     "N", "O", "P", "Q", "R", "S", "T", "U", "V", "W", "X", "Y", "Z"}
Digits == {"0", "1", "2", "3", "4", "5", "6", "7", "8", "9"}
\* the character class [a-zA-Z0-9_.]
UsernameChars == Lower \cup Upper \cup Digits \cup {"_", "."}
\* what str.strip() removes
Whitespace == {" ", "\t", "\n", "\r", "\f"}

\* c * n
Rep(c, n) == [i \in 1..n |-> c]
startswith(s, p) == Len(s) >= Len(p) /\ SubSeq(s, 1, Len(p)) = p
endswith(s, p) == Len(s) >= Len(p) /\ SubSeq(s, Len(s) - Len(p) + 1, Len(s)) = p
\* "p in s"
Contains(s, p) == \E n \in 1..(Len(s) - Len(p) + 1) : SubSeq(s, n, n + Len(p) - 1) = p
\* the length of the longest prefix of s made of characters of cs
Run(s, cs) ==
    IF \A n \in 1..Len(s) : s[n] \in cs THEN Len(s)
    ELSE (CHOOSE n \in 1..Len(s) : s[n] \notin cs /\ \A m \in 1..(n - 1) : s[m] \in cs) - 1
\* s.lstrip(c): every leading c is removed
lstrip(s, c) == SubSeq(s, Run(s, {c}) + 1, Len(s))
\* s.strip()
strip(s) ==
    LET t == SubSeq(s, Run(s, Whitespace) + 1, Len(s))
        r == [n \in 1..Len(t) |-> t[Len(t) + 1 - n]]
    IN  SubSeq(t, 1, Len(t) - Run(r, Whitespace))
\* s.replace(c, "")
remove_all(s, c) == SelectSeq(s, LAMBDA x : x # c)

\* re.compile(r"^[a-zA-Z0-9_.]+$").match(s): "$" matches at the end of the
\* string and also just before a line break that ends the string
allowed_chars_pattern_match(s) ==
    \/ Len(s) >= 1 /\ \A n \in 1..Len(s) : s[n] \in UsernameChars
    \/ /\ Len(s) >= 2
       /\ s[Len(s)] = "\n"
       /\ \A n \in 1..(Len(s) - 1) : s[n] \in UsernameChars

\* Faulty variant: thirty characters are one too many.
is_valid_instagram_username_short(username) ==
    IF ~(1 <= Len(username) /\ Len(username) < 30) THEN FALSE
    ELSE IF startswith(username, <<".">>) \/ endswith(username, <<".">>) THEN FALSE
    ELSE IF ~allowed_chars_pattern_match(username) \/ Contains(username, <<".", ".">>)
         THEN FALSE
    ELSE TRUE

is_valid_instagram_username(username) ==
    IF ~(1 <= Len(username) /\ Len(username) <= 30) THEN FALSE
    ELSE IF startswith(username, <<".">>) \/ endswith(username, <<".">>) THEN FALSE
    ELSE IF ~allowed_chars_pattern_match(username) \/ Contains(username, <<".", ".">>)
         THEN FALSE
    ELSE TRUE

\* Optional[str]
NoneStr == [some |-> FALSE, s |-> << >>]
Some(s) == [some |-> TRUE, s |-> s]

\* the literal parts of url_pattern
SchemeHttp == <<"h", "t", "t", "p", ":", "/", "/">>
SchemeHttps == <<"h", "t", "t", "p", "s", ":", "/", "/">>
Www == <<"w", "w", "w", ".">>
InstagramCom == <<"i", "n", "s", "t", "a", "g", "r", "a", "m", ".", "c", "o", "m", "/">>
\* what "^(?:https?://)?(?:www\.)?instagram\.com/" can match
UrlHeads ==
    {sc \o w \o InstagramCom : sc \in {<< >>, SchemeHttp, SchemeHttps}, w \in {<< >>, Www}}

\* Faulty variant: a URL without a scheme is not recognised.
url_pattern_match_scheme_only(input_string) ==
    LET heads == {h \in UrlHeads \ {InstagramCom, Www \o InstagramCom} :
                    /\ startswith(input_string, h)
                    /\ Len(input_string) > Len(h)
                    /\ input_string[Len(h) + 1] \in UsernameChars}
    IN  IF heads = {} THEN NoneStr
        ELSE LET h == CHOOSE x \in heads : TRUE
                 rest == SubSeq(input_string, Len(h) + 1, Len(input_string))
             IN  Some(SubSeq(rest, 1, Run(rest, UsernameChars)))

\* url_pattern.match(input_string): the named group, the longest run of
\* [a-zA-Z0-9_.] after the head, or no match.  No two heads start the same
\* string, so the match is the one the regex engine finds.
url_pattern_match(input_string) ==
    LET heads == {h \in UrlHeads :
                    /\ startswith(input_string, h)
                    /\ Len(input_string) > Len(h)
                    /\ input_string[Len(h) + 1] \in UsernameChars}
    IN  IF heads = {} THEN NoneStr
        ELSE LET h == CHOOSE x \in heads : TRUE
                 rest == SubSeq(input_string, Len(h) + 1, Len(input_string))
             IN  Some(SubSeq(rest, 1, Run(rest, UsernameChars)))

extract_instagram_username(input_string) ==
    LET match == url_pattern_match(input_string)
        potential_username == IF match.some THEN match.s ELSE lstrip(input_string, "@")
    IN  IF is_valid_instagram_username(potential_username)
        THEN Some(potential_username)
        ELSE NoneStr

\* The name a message handler passes to check_livestream for a text: the
\* plugin handler TelegramBot/handlers/messages/text_message.py (line 102),
\* and the handler of telegram_bot.py (line 159), the module main.py runs.
HandlerModules == {"text_message", "telegram_bot"}
message_handler_username(module, text) ==
    IF module = "text_message" THEN extract_instagram_username(text)
    ELSE Some(remove_all(strip(text), "@"))

\* ------------------------------------------------------------ the program
Ids == 0..MaxMsgs

\* the handlers with at most k of them in flight
NextK(k) ==
    \/ LoadCredentials
    \/ StartupLogin
    \/ SetLogin(k)
    \/ SetPassword(k)
    \/ LoginCmd(k)
    \/ LogoutCmd(k)
    \/ TextMsg(k)
    \/ StatusCmd(k)
    \/ \E i \in Ids : LoginExists(i)
    \/ \E i \in Ids : LoginWithSession(i)
    \/ \E i \in Ids : LoginFresh(i)
    \/ \E i \in Ids : LoginResume(i)
    \/ \E i \in Ids : CheckCall(i)
    \/ \E i \in Ids : CheckResume(i)

\* handlers interleave at their awaits
Next == NextK(MaxInFlight)
Spec == Init /\ [][Next]_vars

\* one handler at a time: a message is dispatched when no handler is in flight
NextSeq == NextK(1)
SpecSeq == Init /\ [][NextSeq]_vars

\* instagram_handler.mask_password, on the characters of the password
mask_password(password) ==
    IF Len(password) > 2
    THEN <<password[1]>> \o Rep("*", Len(password) - 2) \o <<password[Len(password)]>>
    ELSE Rep("*", Len(password))

\* ------------------------------------------- functions taken by themselves
\* the bot's own variables while a single function is examined
bot == <<instagrapi_client, ig_credentials, CREDENTIALS_FILE, SESSION_FILE,
         tasks, nMsgs, phase, last>>

BotNotStarted ==
    /\ instagrapi_client = NoClient
    /\ ig_credentials = EmptyDict
    /\ CREDENTIALS_FILE = AbsentCredFile
    /\ SESSION_FILE = AbsentSessFile
    /\ tasks = << >>
    /\ nMsgs = 0
    /\ phase = "load"
    /\ last = Step("init", 0)

\* check_livestream: called with no handle or a logged-in one, with a target
\* name or None (what extract_instagram_username gives for an invalid text),
\* against every answer of the remote service
ExecutorArgs ==
    {[cl |-> c, username |-> u, remote |-> r] :
        c \in {NoClient, Client("u1", "p1", OldToken)},
        u \in {"target", None},
        r \in Responses}

InitExecutor ==
    /\ BotNotStarted
    /\ fcall \in {[fn |-> "check_livestream", args |-> a, returned |-> FALSE,
                   result |-> CheckRaised("-", << >>)] : a \in ExecutorArgs}

CallCheckLivestream ==
    /\ fcall.fn = "check_livestream"
    /\ ~fcall.returned
    /\ fcall' = [fcall EXCEPT
                    !.returned = TRUE,
                    !.result = check_livestream(fcall.args.cl, fcall.args.username,
                                                fcall.args.remote)]
    /\ UNCHANGED bot

NextExecutor == CallCheckLivestream
SpecExecutor == InitExecutor /\ [][NextExecutor]_vars

\* The normalizer and the handlers' use of it: texts made of a letter, the
\* two punctuation marks of a username, "@", "/", a blank and a line break,
\* in every combination up to MaxLen characters; texts around the length
\* limit; some names; each of them also behind every URL head.  A chat text
\* message is never empty.
TextChars == {"a", "_", ".", "@", "/", " ", "\n"}
Bodies ==
    UNION {[1..n -> TextChars] : n \in 0..MaxLen}
    \cup {Rep("a", 29), Rep("a", 30), Rep("a", 31),
          Rep("a", 28) \o <<".", "a">>, Rep("a", 29) \o <<".">>,
          Rep("a", 29) \o <<"\n">>, Rep("a", 30) \o <<"\n">>}
    \cup {<<"@", "j", "o", "h", "n", ".", "d", "o", "e", "_", "1">>, <<"j", "o", ".", ".", "h", "n">>, <<".", "j", "o", "h", "n">>, <<"j", "o", "h", "n">>,
          <<"J", "0", "h", "n">>, <<"@", "@", "j", "o", "h", "n">>}
Texts == {h \o b : h \in UrlHeads \cup {<< >>}, b \in Bodies}

NormalizerCalls ==
    {[fn |-> "is_valid_instagram_username", module |-> "-"],
     [fn |-> "extract_instagram_username", module |-> "-"]}
    \cup {[fn |-> "message_handler", module |-> m] : m \in HandlerModules}

InitNormalizer ==
    /\ BotNotStarted
    /\ fcall \in {[fn |-> c.fn, module |-> c.module, text |-> t, returned |-> FALSE,
                   valid |-> FALSE, username |-> NoneStr] :
                  c \in NormalizerCalls, t \in Texts}
    /\ fcall.fn = "message_handler" => fcall.text # << >>

CallIsValid ==
    /\ fcall.fn = "is_valid_instagram_username"
    /\ ~fcall.returned
    /\ fcall' = [fcall EXCEPT !.returned = TRUE,
                              !.valid = is_valid_instagram_username(fcall.text)]
    /\ UNCHANGED bot

CallExtract ==
    /\ fcall.fn = "extract_instagram_username"
    /\ ~fcall.returned
    /\ fcall' = [fcall EXCEPT !.returned = TRUE,
                              !.username = extract_instagram_username(fcall.text)]
    /\ UNCHANGED bot

\* a message handler computes the name it will check
CallMessageHandler ==
    /\ fcall.fn = "message_handler"
    /\ ~fcall.returned
    /\ fcall' = [fcall EXCEPT !.returned = TRUE,
                              !.username = message_handler_username(fcall.module, fcall.text)]
    /\ UNCHANGED bot

NextNormalizer == CallIsValid \/ CallExtract \/ CallMessageHandler
SpecNormalizer == InitNormalizer /\ [][NextNormalizer]_vars

\* The functions that handle the secrets.  encrypt_data, and decrypt_data on
\* what is found on disk later: the token itself, the token of another key,
\* a token with damaged bytes (it verifies under no key), or bytes that are
\* no token at all.
CodecDicts ==
    {Dict(u, p) : u \in Usernames \cup {None, "u2"}, p \in Passwords \cup {None}}
Damaged(blob) == {[blob EXCEPT !.key = "other"], [blob EXCEPT !.key = None], NoBlob}

\* passwords to mask: every text of up to MaxLen characters
MaskInputs == UNION {[1..n -> {"p", "w", "*"}] : n \in 0..MaxLen}

InitSecrets ==
    /\ BotNotStarted
    /\ fcall \in {[fn |-> "encrypt_data", pc |-> "call", data |-> d,
                   blob |-> NoBlob, out |-> EmptyDict] : d \in CodecDicts}
                 \cup {[fn |-> "mask_password", pc |-> "call", password |-> w,
                        out |-> << >>] : w \in MaskInputs}

CallEncrypt ==
    /\ fcall.fn = "encrypt_data" /\ fcall.pc = "call"
    /\ fcall' = [fcall EXCEPT !.pc = "returned", !.blob = encrypt_data(fcall.data)]
    /\ UNCHANGED bot

\* the bytes are read back intact, or not
ReadBack ==
    /\ fcall.fn = "encrypt_data" /\ fcall.pc = "returned"
    /\ \E b \in {fcall.blob} \cup Damaged(fcall.blob) :
        fcall' = [fcall EXCEPT !.fn = "decrypt_data", !.pc = "call", !.blob = b]
    /\ UNCHANGED bot

CallDecrypt ==
    /\ fcall.fn = "decrypt_data" /\ fcall.pc = "call"
    /\ fcall' = [fcall EXCEPT !.pc = "returned", !.out = decrypt_data(fcall.blob)]
    /\ UNCHANGED bot

CallMaskPassword ==
    /\ fcall.fn = "mask_password" /\ fcall.pc = "call"
    /\ fcall' = [fcall EXCEPT !.pc = "returned", !.out = mask_password(fcall.password)]
    /\ UNCHANGED bot

NextSecrets == CallEncrypt \/ ReadBack \/ CallDecrypt \/ CallMaskPassword
SpecSecrets == InitSecrets /\ [][NextSecrets]_vars

\* instagram_handler.save_credentials statement by statement, with the process
\* free to die between any two of them. The file on disk is CREDENTIALS_FILE;
\* fcall holds the position, the ciphertext computed and the file as it was
\* when the call began.
unsaved == <<instagrapi_client, SESSION_FILE, tasks, nMsgs, phase, last>>

\* an existing file of no bytes: what open(..., "wb") leaves
EmptyFile == CredFile(NoBlob)

InitSave ==
    /\ instagrapi_client = NoClient
    /\ SESSION_FILE = AbsentSessFile
    /\ tasks = << >>
    /\ nMsgs = 0
    /\ phase = "running"
    /\ ig_credentials \in Dicts
    /\ CREDENTIALS_FILE \in {AbsentCredFile, CredFile(CorruptBlob)}
                            \cup {save_credentials(d) : d \in Dicts}
    /\ last = Step("init", 0)
    /\ fcall = [fn |-> "save_credentials", pc |-> "encrypt", blob |-> NoBlob,
                previous |-> CREDENTIALS_FILE]

\* line 52: encrypted_data = encrypt_data(shared_state.ig_credentials)
SaveEncrypt ==
    /\ fcall.fn = "save_credentials" /\ fcall.pc = "encrypt"
    /\ fcall' = [fcall EXCEPT !.pc = "open", !.blob = encrypt_data(ig_credentials)]
    /\ UNCHANGED <<ig_credentials, CREDENTIALS_FILE, unsaved>>

\* line 53: open(CREDENTIALS_FILE, "wb") creates the file or truncates it
SaveOpen ==
    /\ fcall.fn = "save_credentials" /\ fcall.pc = "open"
    /\ CREDENTIALS_FILE' = EmptyFile
    /\ fcall' = [fcall EXCEPT !.pc = "write"]
    /\ UNCHANGED <<ig_credentials, unsaved>>

\* line 54: f.write(encrypted_data) fills the writer's buffer
SaveWrite ==
    /\ fcall.fn = "save_credentials" /\ fcall.pc = "write"
    /\ fcall' = [fcall EXCEPT !.pc = "close"]
    /\ UNCHANGED <<ig_credentials, CREDENTIALS_FILE, unsaved>>

\* leaving the with block closes the file, which flushes the buffer
SaveClose ==
    /\ fcall.fn = "save_credentials" /\ fcall.pc = "close"
    /\ CREDENTIALS_FILE' = CredFile(fcall.blob)
    /\ fcall' = [fcall EXCEPT !.pc = "returned"]
    /\ UNCHANGED <<ig_credentials, unsaved>>

\* the process dies; the buffer, if any, is lost
SaveCrash ==
    /\ fcall.fn = "save_credentials" /\ fcall.pc \in {"encrypt", "open", "write", "close"}
    /\ fcall' = [fcall EXCEPT !.pc = "crashed"]
    /\ UNCHANGED <<ig_credentials, CREDENTIALS_FILE, unsaved>>

NextSave == SaveEncrypt \/ SaveOpen \/ SaveWrite \/ SaveClose \/ SaveCrash
SpecSave == InitSave /\ [][NextSave]_vars

\* set_password_handler await by await. The handler changes the credentials
\* before its first await; what follows are calls of the chat transport and
\* one sleep. fcall holds the argument (None: the text has no part after the
\* first space, IndexError), the awaits still to come and whether the
\* operator's message is still in the chat.
\* Faulty variant: the denied command leaves the message in the chat.
set_password_awaits_denied_kept(arg, client) ==
    IF client.some THEN <<"reply_text">>
    ELSE IF arg = None THEN <<"reply_text">>
    ELSE <<"reply_text", "reply_text", "sleep", "delete">>

\* lines 45-70, the awaits in order
set_password_awaits(arg, client) ==
    IF client.some THEN <<"reply_text", "delete">>
    ELSE IF arg = None THEN <<"reply_text">>
    ELSE <<"reply_text", "reply_text", "sleep", "delete">>

InitSetPassword ==
    /\ instagrapi_client \in {NoClient, Client("u1", "p1", OldToken)}
    /\ ig_credentials \in IF instagrapi_client.some THEN {Dict("u1", "p1")} ELSE Dicts
    /\ CREDENTIALS_FILE = IF ig_credentials = EmptyDict THEN AbsentCredFile
                          ELSE save_credentials(ig_credentials)
    /\ SESSION_FILE \in {AbsentSessFile, SessFile(OldToken)}
    /\ tasks = << >>
    /\ nMsgs = 0
    /\ phase = "running"
    /\ last = Step("init", 0)
    /\ fcall \in {[fn |-> "set_password_handler", pc |-> "received", arg |-> a,
                   awaits |-> << >>, in_chat |-> TRUE] : a \in Passwords \cup {None}}

\* the handler runs up to its first await
SetPasswordBegin ==
    /\ fcall.fn = "set_password_handler" /\ fcall.pc = "received"
    /\ LET r == set_password_handler(fcall.arg, instagrapi_client, ig_credentials,
                                     CREDENTIALS_FILE, SESSION_FILE)
       IN  /\ instagrapi_client' = r.client
           /\ ig_credentials' = r.creds
           /\ CREDENTIALS_FILE' = r.cfile
           /\ SESSION_FILE' = r.sfile
    /\ fcall' = [fcall EXCEPT !.pc = "awaiting",
                              !.awaits = set_password_awaits(fcall.arg, instagrapi_client)]
    /\ UNCHANGED <<tasks, nMsgs, phase, last>>

\* the await at the head completes; message.delete() removes the message
SetPasswordAwait ==
    /\ fcall.fn = "set_password_handler" /\ fcall.pc = "awaiting"
    /\ fcall.awaits # << >>
    /\ fcall' = [fcall EXCEPT !.awaits = Tail(@),
                              !.in_chat = @ /\ Head(fcall.awaits) # "delete",
                              !.pc = IF Len(fcall.awaits) = 1 THEN "returned" ELSE @]
    /\ UNCHANGED <<shared, tasks, nMsgs, phase, last>>

NextSetPassword == SetPasswordBegin \/ SetPasswordAwait
\* the event loop resumes every coroutine whose await has completed
SpecSetPassword == InitSetPassword /\ [][NextSetPassword]_vars /\ WF_vars(NextSetPassword)

\* ----------------------------------------------------------------- claims
\* The orchestrator's state NoCredentials: no handle and no credential in memory.
NoCredentials == ~instagrapi_client.some /\ ig_credentials = EmptyDict
\* Neither file exists.
NoFiles == ~CREDENTIALS_FILE.exists /\ ~SESSION_FILE.exists
\* CredentialsReady: both fields non-empty, no handle.
CredentialsReady ==
    /\ ~instagrapi_client.some
    /\ Truthy(ig_credentials.username)
    /\ Truthy(ig_credentials.password)

\* both credentials are set and non-empty
CredentialsFilled == Truthy(ig_credentials.username) /\ Truthy(ig_credentials.password)

\* C1: in every reachable state, under any interleaving of the handlers, the
\* handle is non-null only if the login that stored it was started with a
\* non-empty username and a non-empty password and no critical-failure wipe
\* has happened since that login succeeded.
C1_HandleOnlyAfterCleanLogin ==
    instagrapi_client.some =>
        /\ Truthy(instagrapi_client.user)
        /\ Truthy(instagrapi_client.pass)
        /\ ~instagrapi_client.stale

\* C2: when the live check of a text message raised an error of the critical
\* set, the message handler ends with the handle absent, the in-memory
\* credentials empty and both files deleted.
C2_CriticalCheckWipes ==
    (last.op = "message_handler_end" /\ last.out \in CRITICAL_INSTAGRAM_EXCEPTIONS)
        => NoCredentials /\ NoFiles

C2_Witness ==
    /\ last.op = "message_handler_end"
    /\ last.out = "ChallengeRequired"
    /\ last.had_cfile /\ last.had_sfile
    /\ NoCredentials /\ NoFiles

\* C3: when attempt_login runs without the manual-first-attempt flag (the
\* startup login) and the adapter raises BadPassword or LoginRequired, the
\* result is NoCredentials: credentials empty, neither file exists, no handle.
C3_StartupBadPasswordWipes ==
    [][\A i \in InFlight :
        ( /\ last'.op = "attempt_login_end" /\ last'.id = i
          /\ ~tasks[i].manual
          /\ tasks[i].out \in {"BadPassword", "LoginRequired"} )
        => (NoCredentials /\ NoFiles)']_vars

C3_Witness ==
    /\ last.op = "attempt_login_end" /\ last.id = 0
    /\ last.out = "BadPassword"
    /\ last.had_cfile /\ last.had_sfile
    /\ NoCredentials /\ NoFiles

\* C4: when a /login command fails with BadPassword or LoginRequired, nothing
\* is wiped: credentials, credentials file and session file are as before the
\* attempt, the handle is absent, and the state is CredentialsReady, so that a
\* further /login is accepted.  (Handlers taken one at a time.)
C4_ManualFailureKeepsAll ==
    [][\A i \in InFlight :
        ( /\ last'.op = "attempt_login_end" /\ last'.id = i
          /\ tasks[i].manual /\ tasks[i].msg
          /\ tasks[i].out \in {"BadPassword", "LoginRequired"} )
        => /\ ig_credentials' = tasks[i].pre.creds
           /\ CREDENTIALS_FILE' = tasks[i].pre.cfile
           /\ SESSION_FILE' = tasks[i].pre.sfile
           /\ CredentialsReady'
           /\ login_command_handler(instagrapi_client', ig_credentials').proceed]_vars

C4_Witness ==
    /\ last.op = "attempt_login_end" /\ last.id > 0
    /\ last.out = "BadPassword"
    /\ CredentialsReady
    /\ CREDENTIALS_FILE.exists /\ SESSION_FILE.exists

\* C5: when a login attempt, manual or at startup, fails with an error other
\* than BadPassword and LoginRequired, credentials, credentials file and
\* session file are left unchanged and the handle is absent afterwards.
\* (Handlers taken one at a time.)
C5_OtherFailureKeepsAll ==
    [][\A i \in InFlight :
        ( /\ last'.op = "attempt_login_end" /\ last'.id = i
          /\ tasks[i].out \in LoginErrors \ {"BadPassword", "LoginRequired"} )
        => /\ ig_credentials' = tasks[i].pre.creds
           /\ CREDENTIALS_FILE' = tasks[i].pre.cfile
           /\ SESSION_FILE' = tasks[i].pre.sfile
           /\ ~instagrapi_client'.some]_vars

C5_Witness ==
    /\ last.op = "attempt_login_end" /\ last.id = 0
    /\ last.out = "ChallengeRequired"
    /\ CredentialsReady
    /\ CREDENTIALS_FILE.exists /\ SESSION_FILE.exists

\* C6: from every reachable state, a /logout command ends in NoCredentials:
\* handle absent, credentials empty, session file and credentials file absent.
C6_LogoutEndsClean ==
    last.op = "logout" => NoCredentials /\ NoFiles

\* C7: two /logout commands in a row leave the same state as one,
\* NoCredentials both times, and the second raises no error.
C7_LogoutIdempotent ==
    [][(last.op = "logout" /\ last'.op = "logout")
        => /\ shared' = shared
           /\ NoCredentials /\ NoCredentials'
           /\ ~last'.raised]_vars

C7_Witness ==
    /\ last.op = "logout" /\ last.again
    /\ ~last.had_cfile /\ ~last.had_sfile
    /\ ~last.raised
    /\ NoCredentials /\ NoFiles

\* C8: credentials and session token are wiped together: a step that removes
\* one of the two files leaves neither of them and empties the in-memory
\* credentials; a file is removed, never left behind with another content.
C8_WipedTogether ==
    [][( \/ CREDENTIALS_FILE.exists /\ ~CREDENTIALS_FILE'.exists
         \/ SESSION_FILE.exists /\ ~SESSION_FILE'.exists
         \/ last'.op = "logout" /\ ig_credentials # ig_credentials'
         \/ last'.op \in {"attempt_login_end", "message_handler_end"}
              /\ ig_credentials # EmptyDict /\ ig_credentials' = EmptyDict )
        => (NoFiles /\ ig_credentials = EmptyDict)']_vars

C8_Witness ==
    /\ last.op \in {"logout", "attempt_login_end", "message_handler_end"}
    /\ last.had_cfile /\ last.had_sfile
    /\ NoFiles /\ ig_credentials = EmptyDict

\* C9: every invocation of attempt_login sets the handle to absent, whatever
\* it was, and calls the adapter only afterwards, at most once, and only with
\* a non-empty username and a non-empty password.
C9_ResetThenOneAdapterCall ==
    [][/\ \A h \in {instagrapi_client, Client("u1", "p1", OldToken)}, m \in BOOLEAN :
            LET r == attempt_login_begin(h, ig_credentials, m, m)
            IN  /\ r.client = NoClient
                /\ r.proceed => Truthy(r.task.username) /\ Truthy(r.task.password)
       /\ \A i \in DOMAIN tasks' :
            tasks'[i].kind = "login" =>
                /\ tasks'[i].calls = (IF tasks'[i].pc = "login_call" THEN 0 ELSE 1)
                /\ Truthy(tasks'[i].username) /\ Truthy(tasks'[i].password)
                /\ i \notin InFlight => ~instagrapi_client'.some /\ tasks'[i].calls = 0
       /\ last'.op = "perform_login_exists" =>
            last'.id \in InFlight /\ tasks[last'.id].calls = 0]_vars

C9_Witness ==
    \E i \in InFlight :
        /\ tasks[i].kind = "login" /\ tasks[i].pc = "login_return"
        /\ tasks[i].calls = 1
        /\ ~instagrapi_client.some

\* C10: /setlogin and /setpassword never attempt a login: they change only the
\* in-memory credentials and the credentials file and leave the handle, the
\* session file and the coroutines in flight as they are, also when the
\* mutation makes both fields present.
C10_MutatorsNeverLogin ==
    [][last'.op \in {"setlogin", "setpassword"}
        => /\ instagrapi_client' = instagrapi_client
           /\ SESSION_FILE' = SESSION_FILE
           /\ tasks' = tasks]_vars

C10_Witness ==
    /\ last.op = "setpassword"
    /\ CredentialsReady
    /\ CREDENTIALS_FILE = save_credentials(ig_credentials)
    /\ InFlight = {}

\* CredentialsPartial: something is set, but not both fields non-empty.
CredentialsPartial ==
    /\ ~instagrapi_client.some
    /\ ig_credentials # EmptyDict
    /\ ~(Truthy(ig_credentials.username) /\ Truthy(ig_credentials.password))

\* C11: from NoCredentials, a /setlogin alone gives CredentialsPartial, where
\* a /login is refused and starts no adapter call; once a non-empty username
\* and a non-empty password are both set the state is CredentialsReady and a
\* /login is accepted; a login whose adapter call succeeded ends LoggedIn,
\* the handle being the client the adapter returned.
C11_SetupScenario ==
    [][/\ (NoCredentials /\ last'.op = "setlogin" /\ last'.out # None)
            => /\ ig_credentials' = Dict(last'.out, None)
               /\ CredentialsPartial'
               /\ ~login_command_handler(instagrapi_client', ig_credentials').proceed
       /\ (CredentialsPartial /\ last'.op = "login")
            => /\ shared' = shared
               /\ tasks' = tasks
       /\ ( /\ ~instagrapi_client.some
            /\ \/ last'.op = "setpassword" /\ Truthy(ig_credentials.username)
               \/ last'.op = "setlogin" /\ Truthy(ig_credentials.password)
            /\ Truthy(last'.out) )
            => /\ CredentialsReady'
               /\ login_command_handler(instagrapi_client', ig_credentials').proceed
       /\ \A i \in InFlight :
            (last'.op = "attempt_login_end" /\ last'.id = i /\ tasks[i].out = "ok")
            => /\ instagrapi_client'.some
               /\ instagrapi_client' = tasks[i].new_client]_vars

\* the third message of a run is a /login that created a session and ended
\* LoggedIn with the credentials set before it
C11_Witness ==
    /\ last.op = "attempt_login_end" /\ last.id = MaxMsgs
    /\ last.out = "ok"
    /\ instagrapi_client.some
    /\ instagrapi_client.tok = MaxMsgs
    /\ ig_credentials = Dict(instagrapi_client.user, instagrapi_client.pass)
    /\ CREDENTIALS_FILE = save_credentials(ig_credentials)

\* check_livestream has returned or raised, having been given a handle
Checked == fcall.fn = "check_livestream" /\ fcall.returned /\ fcall.args.cl.some
\* the broadcast lookup is reached: the profile lookup answered, and the
\* account is public or followed
ReachesBroadcast(remote) ==
    /\ remote.info.err = ""
    /\ \/ ~remote.info.is_private
       \/ remote.friend.err = "" /\ remote.friend.following

\* C12: whenever the profile lookup, the friendship lookup or the broadcast
\* lookup of a check raises an error of the critical set, check_livestream
\* raises that same error and returns no result; it raises nothing else.
C12_CriticalPropagates ==
    Checked =>
        LET remote == fcall.args.remote
            r == fcall.result
        IN  /\ remote.info.err \in CRITICAL_INSTAGRAM_EXCEPTIONS
                => r.raised = remote.info.err /\ r.status = "-"
            /\ ( /\ remote.info.err = "" /\ remote.info.is_private
                 /\ remote.friend.err \in CRITICAL_INSTAGRAM_EXCEPTIONS )
                => r.raised = remote.friend.err /\ r.status = "-"
            /\ ( /\ ReachesBroadcast(remote)
                 /\ remote.story.err \in CRITICAL_INSTAGRAM_EXCEPTIONS )
                => r.raised = remote.story.err /\ r.status = "-"
            /\ r.raised # "" => r.raised \in CRITICAL_INSTAGRAM_EXCEPTIONS

C12_Witness ==
    /\ Checked
    /\ fcall.args.remote.story.err = "ChallengeRequired"
    /\ fcall.result.raised = "ChallengeRequired"
    /\ Len(fcall.result.calls) = 3

\* the error a check meets first, "" when it meets none
FirstError(remote) ==
    IF remote.info.err # "" THEN remote.info.err
    ELSE IF remote.info.is_private /\ remote.friend.err # "" THEN remote.friend.err
    ELSE IF ReachesBroadcast(remote) THEN remote.story.err
    ELSE ""

\* C13: a check that meets UserNotFound, FeedbackRequired or another
\* non-critical error gives a result tagged error, with the not-found message
\* for UserNotFound and the retry-later message for FeedbackRequired; and the
\* steps of such a check (the handler's start, the executor's run, the reply)
\* leave the handle, the in-memory credentials and both files as they are.
RecoverableConverted ==
    \A remote \in Responses :
        LET e == FirstError(remote)
            r == check_livestream(Client("u1", "p1", OldToken), None, remote)
        IN  (e # "" /\ e \notin CRITICAL_INSTAGRAM_EXCEPTIONS)
            => /\ r.raised = "" /\ r.status = "error"
               /\ r.message = (IF e = "UserNotFound" THEN "not_found"
                               ELSE IF e = "FeedbackRequired" THEN "blocked"
                               ELSE "unexpected")
               /\ ResultTag(r) = "error_" \o r.message

C13_RecoverableErrorKeepsState ==
    [][/\ RecoverableConverted
       /\ last'.op \in {"text", "check_livestream"} => shared' = shared
       /\ ( /\ last'.op = "message_handler_end"
            /\ last'.out \in {"error_not_found", "error_blocked", "error_unexpected"} )
            => shared' = shared]_vars

C13_Witness ==
    /\ last.op = "message_handler_end"
    /\ last.out = "error_not_found"
    /\ instagrapi_client.some
    /\ CredentialsFilled
    /\ CREDENTIALS_FILE.exists /\ SESSION_FILE.exists

\* C14: for a private account that the bot does not follow, check_livestream
\* returns the private result after the profile lookup and the friendship
\* lookup, and issues no broadcast lookup.
C14_PrivateNoBroadcastLookup ==
    ( /\ Checked
      /\ fcall.args.remote.info.err = "" /\ fcall.args.remote.info.is_private
      /\ fcall.args.remote.friend.err = "" /\ ~fcall.args.remote.friend.following )
    => /\ fcall.result.raised = ""
       /\ fcall.result.status = "private"
       /\ fcall.result.calls =
            << Call("user_info_by_username", fcall.args.username),
               Call("user_friendship_v1", fcall.args.remote.info.pk) >>
       /\ \A n \in 1..Len(fcall.result.calls) :
            fcall.result.calls[n].fn # "private_request"

\* a private, unfollowed account that is broadcasting
C14_Witness ==
    /\ Checked
    /\ fcall.args.remote.info.is_private
    /\ fcall.args.remote.friend = Friendship(FALSE)
    /\ fcall.args.remote.story = Story(BroadcastObject("b1", "url1"))
    /\ fcall.result.status = "private"

WellFormed(s) ==
    /\ 1 <= Len(s) /\ Len(s) <= 30
    /\ \A n \in 1..Len(s) : s[n] \in UsernameChars
    /\ s[1] # "." /\ s[Len(s)] # "."
    /\ \A n \in 1..(Len(s) - 1) : ~(s[n] = "." /\ s[n + 1] = ".")

Returned(fn) == fcall.fn = fn /\ fcall.returned

\* C16: in every message handler the program registers, the name passed to
\* the live check is the text put through extract_instagram_username.
C16_HandlersNormalize ==
    Returned("message_handler")
        => fcall.username = extract_instagram_username(fcall.text)

\* C17: every string of 1 to 30 characters of [a-zA-Z0-9_.] that neither
\* starts nor ends with "." and holds no ".." is accepted by
\* is_valid_instagram_username.
C17_ValidAccepted ==
    (Returned("is_valid_instagram_username") /\ WellFormed(fcall.text)) => fcall.valid

C17_Witness ==
    /\ Returned("is_valid_instagram_username")
    /\ fcall.text = Rep("a", 28) \o <<".", "a">>
    /\ fcall.valid

\* C18: extract_instagram_username returns an identifier only when it is a
\* valid one: 1 to 30 characters of [a-zA-Z0-9_.] and nothing else, a line
\* break at the end included, no "." first or last, no "..".
C18_OnlyValidIdentifiers ==
    Returned("extract_instagram_username")
        => (fcall.username.some => WellFormed(fcall.username.s))

\* the URL heads the specification lists
ListedHeads == {InstagramCom, SchemeHttps \o InstagramCom, SchemeHttps \o Www \o InstagramCom}

\* C19: for every valid identifier s and each of the heads "instagram.com/",
\* "https://instagram.com/" and "https://www.instagram.com/",
\* extract_instagram_username(head + s) is s.
C19_UrlRoundTrip ==
    Returned("extract_instagram_username")
        => \A h \in ListedHeads :
            LET s == SubSeq(fcall.text, Len(h) + 1, Len(fcall.text))
            IN  (startswith(fcall.text, h) /\ WellFormed(s)) => fcall.username = Some(s)

C19_Witness ==
    /\ Returned("extract_instagram_username")
    /\ fcall.text = SchemeHttps \o Www \o InstagramCom \o Rep("a", 28) \o <<".", "a">>
    /\ fcall.username = Some(Rep("a", 28) \o <<".", "a">>)

\* C20: for a text that is not a URL the candidate is the text without one
\* leading "@": a text with two or more leading "@" keeps an "@" and is
\* rejected.
C20_SingleAtStripped ==
    (Returned("extract_instagram_username") /\ ~url_pattern_match(fcall.text).some)
        => LET candidate == IF startswith(fcall.text, <<"@">>)
                            THEN Tail(fcall.text) ELSE fcall.text
           IN  fcall.username = (IF is_valid_instagram_username(candidate)
                                 THEN Some(candidate) ELSE NoneStr)

\* the candidate the normalizer examines for a text (lines 71-81)
Candidate(text) ==
    IF url_pattern_match(text).some THEN url_pattern_match(text).s ELSE lstrip(text, "@")

\* C21: when the normalizer rejects a text, the message handler still goes on
\* to the live check, and the name it passes is the rejected value, which the
\* remote lookup then reports as not found.
C21_RejectedValuePassedOn ==
    (Returned("message_handler") /\ ~extract_instagram_username(fcall.text).some)
        => fcall.username = Some(Candidate(fcall.text))

Undecodable == UNION {Damaged(encrypt_data(d)) : d \in Dicts} \cup {CorruptBlob}
UndecodableGiveEmpty == \A b \in Undecodable : decrypt_data(b) = EmptyDict

\* C23: decrypt_data gives the empty struct for a damaged blob, a blob of
\* another key and malformed bytes; load_credentials then leaves the
\* in-memory credentials empty, and the startup login starts no adapter call.
C23_UndecodableLoadsEmpty ==
    [][/\ UndecodableGiveEmpty
       /\ ( /\ last'.op = "load_credentials"
            /\ CREDENTIALS_FILE.exists /\ CREDENTIALS_FILE.blob \in Undecodable )
            => /\ ig_credentials' = EmptyDict
               /\ ~last'.raised
       /\ (last'.op = "startup_login" /\ ig_credentials = EmptyDict)
            => /\ tasks' = tasks
               /\ phase' = "running"
               /\ ~instagrapi_client'.some]_vars

C23_Witness ==
    /\ last.op = "startup_login"
    /\ CREDENTIALS_FILE = CredFile(CorruptBlob)
    /\ ig_credentials = EmptyDict
    /\ tasks = << >>
    /\ phase = "running"

\* C24: at every point of save_credentials, a crash included, the credentials
\* file is whole: it is the file as it was before the call or the complete
\* encryption of the in-memory dict, never an empty or partly written file.
C24_FileWholeAtEveryPoint ==
    fcall.fn = "save_credentials"
        => CREDENTIALS_FILE \in {fcall.previous, save_credentials(ig_credentials)}

\* C25: load_credentials decodes exactly when the credentials file exists,
\* whatever it holds; without a file it raises nothing and leaves the
\* in-memory credentials as they are, empty at process start.
C25_LoadGatedOnExistence ==
    [][last'.op = "load_credentials"
        => /\ (last'.out = "decoded") <=> CREDENTIALS_FILE.exists
           /\ CREDENTIALS_FILE.exists
                => ig_credentials' = decrypt_data(CREDENTIALS_FILE.blob)
           /\ ~CREDENTIALS_FILE.exists
                => /\ ig_credentials' = ig_credentials
                   /\ ig_credentials' = EmptyDict
           /\ ~last'.raised
           /\ UNCHANGED <<CREDENTIALS_FILE, SESSION_FILE, instagrapi_client>>]_vars

\* a file that holds a username only was decoded
C25_Witness ==
    /\ last.op = "load_credentials" /\ last.out = "decoded"
    /\ ig_credentials = Dict("u1", None)
    /\ CREDENTIALS_FILE = save_credentials(ig_credentials)

\* C26: no reply sent to the chat embeds the username or the password other
\* than as mask_password renders it.
C26_SecretsOnlyMasked ==
    /\ last.said.username.form \in {"-", "mask_password"}
    /\ last.said.password.form \in {"-", "mask_password"}

IsPrefix(a, b) == Len(a) <= Len(b) /\ \A j \in 1..Len(a) : a[j] = b[j]

\* C27: the adapter takes the session path exactly when the session file
\* exists: load_settings, login, then one get_timeline_feed, the file left as
\* it is. Otherwise it logs in with the password and writes the session file
\* right after the login succeeded. A login that fails leaves the session
\* file as it was.
C27_TwoPathHandshake ==
    [][/\ last'.op = "perform_login_exists"
            => tasks'[last'.id].pc
                 = IF SESSION_FILE.exists THEN "login_session" ELSE "login_fresh"
       /\ last'.op = "perform_login_session"
            => /\ SESSION_FILE' = SESSION_FILE
               /\ last'.trace # << >>
               /\ IsPrefix(last'.trace, <<"load_settings", "login", "get_timeline_feed">>)
               /\ last'.out = "ok"
                    => /\ last'.trace = <<"load_settings", "login", "get_timeline_feed">>
                       /\ tasks'[last'.id].new_client.some
       /\ last'.op = "perform_login_fresh"
            => /\ last'.out = "ok"
                    => /\ last'.trace = <<"login", "dump_settings">>
                       /\ SESSION_FILE' = SessFile(last'.id)
               /\ last'.out # "ok"
                    => /\ last'.trace = <<"login">>
                       /\ SESSION_FILE' = SESSION_FILE
       /\ last'.op \in {"perform_login_exists", "perform_login_session",
                        "perform_login_fresh"}
            => (last'.out # "ok" => SESSION_FILE' = SESSION_FILE)]_vars

\* a login verified the session that an earlier password login of the same
\* run had written
C27_Witness ==
    /\ last.op = "perform_login_session" /\ last.out = "ok"
    /\ last.trace = <<"load_settings", "login", "get_timeline_feed">>
    /\ SESSION_FILE.exists /\ SESSION_FILE.tok # OldToken

\* C28: every write of the session file stores a ciphertext of the Secret
\* Codec, as the credentials file does.
C28_SessionWrittenEncrypted ==
    [][(SESSION_FILE' # SESSION_FILE /\ SESSION_FILE'.exists)
        => SESSION_FILE'.key = ENCRYPTION_KEY]_vars

\* C29: once the process has started and while no handler is in the middle of
\* a step, the credentials file exists exactly when the in-memory credentials
\* are non-empty, and decrypts to them.
C29_WriteThrough ==
    (phase = "running" /\ InFlight = {})
        => /\ CREDENTIALS_FILE.exists <=> ig_credentials # EmptyDict
           /\ CREDENTIALS_FILE.exists
                => decrypt_data(CREDENTIALS_FILE.blob) = ig_credentials

\* C30: a text message that finds no handle is answered "not ready", starts no
\* check and changes nothing, whatever the credentials and the files are; one
\* that finds a handle starts a check; /status says "logged in" exactly when
\* the handle is set.
C30_HandleDecidesReadiness ==
    [][/\ (last'.op = "text" /\ ~instagrapi_client.some)
            => /\ last'.said = Text(<<"not_ready">>)
               /\ tasks' = tasks
               /\ shared' = shared
               /\ phase' = phase
       /\ (last'.op = "text" /\ instagrapi_client.some)
            => /\ last'.said = Text(<<"checking">>)
               /\ last'.id \in DOMAIN tasks' /\ tasks'[last'.id].kind = "check"
       /\ last'.op = "status"
            => /\ (last'.said = Text(<<"status_logged_in">>)) <=> instagrapi_client.some
               /\ (last'.said = Text(<<"status_not_logged_in">>)) <=> ~instagrapi_client.some
               /\ tasks' = tasks
               /\ shared' = shared]_vars

\* not ready although both credentials are set and both files are on disk
C30_Witness ==
    /\ last.op = "text" /\ last.said = Text(<<"not_ready">>)
    /\ CredentialsFilled
    /\ CREDENTIALS_FILE.exists /\ SESSION_FILE.exists

\* C31: a /setpassword message that carries a password, accepted or denied
\* because the bot is logged in, is eventually deleted from the chat.
C31_PasswordMessageDeleted ==
    (fcall.fn = "set_password_handler" /\ fcall.arg # None) ~> ~fcall.in_chat

\* the command was denied, the stored password kept, the message deleted
C31_Witness ==
    /\ fcall.fn = "set_password_handler" /\ fcall.pc = "returned"
    /\ fcall.arg = "p2" /\ ~fcall.in_chat
    /\ instagrapi_client.some /\ ig_credentials.password = "p1"

\* C32: once a /logout has completed, a login that was received before it
\* and was still in flight when it ran stores no handle: the step that
\* follows the logout leaves the handle absent when it is the end of such a
\* login.
C32_NoHandleFromEarlierLogin ==
    [][(/\ last.op = "logout"
        /\ last'.op = "attempt_login_end"
        /\ last'.id < last.id)
        => ~instagrapi_client'.some]_vars

\* the adapter calls running on a worker thread: past the exists() test of
\* line 87 and not yet returned
AdapterCalls ==
    {i \in InFlight : /\ tasks[i].kind = "login"
                      /\ tasks[i].pc \in {"login_session", "login_fresh"}}

\* C33: at most one call of perform_instagram_login is in flight at any time.
C33_OneAdapterCall == Cardinality(AdapterCalls) <= 1

\* C34: whenever the handle is non-null, the in-memory username and password
\* are the ones that the adapter call which produced the handle was given.
C34_HandleMatchesCredentials ==
    instagrapi_client.some
        => /\ ig_credentials.username = instagrapi_client.user
           /\ ig_credentials.password = instagrapi_client.pass

\* C35: whenever the handle is non-null and the session file exists, the file
\* holds the token the handle is bound to.
C35_SessionFileIsHandleToken ==
    (instagrapi_client.some /\ SESSION_FILE.exists)
        => SESSION_FILE.tok = instagrapi_client.tok

\* C36: a critical error of a live check wipes state only when the handle the
\* check was started with is still the current one: when another login has
\* stored a handle since, that handle, the credentials and the files stay as
\* they are.
C36_WipeOnlyOwnHandle ==
    [][\A i \in InFlight :
        (/\ last'.op = "message_handler_end" /\ last'.id = i
         /\ tasks[i].out \in CRITICAL_INSTAGRAM_EXCEPTIONS
         /\ instagrapi_client.some
         /\ tasks[i].cl.tok # instagrapi_client.tok)
        => shared' = shared]_vars

\* C37: a session file written by a login of this run exists only while the
\* in-memory credentials hold a username and a password; none is present
\* once a logout or a wipe has emptied them.
C37_SessionFileOnlyWithCredentials ==
    (SESSION_FILE.exists /\ SESSION_FILE.tok # OldToken)
        => HasKey(ig_credentials, "username") /\ HasKey(ig_credentials, "password")

\* C38: the handle passed to check_livestream is never None.
C38_CheckHasHandle ==
    \A i \in InFlight :
        (tasks[i].kind = "check" /\ tasks[i].pc = "check_return") => tasks[i].cl.some

\* C39: every /login command is answered at once: already logged in,
\* credentials not set, or the start of the login attempt.
C39_LoginAnswered == last.op = "login" => last.said.replies # << >>

====
